---- MODULE Spec2Model ----
(***************************************************************************)
(* A model of todo_app.py: the in-memory task list of TodoManager, the     *)
(* backing file tasks.json, and the command loop of main() that drives     *)
(* them.  One process runs at a time; a session starts by constructing     *)
(* TodoManager (load_tasks), then executes commands until it quits, is     *)
(* interrupted, dies of an uncaught exception or is killed.  save_tasks is *)
(* modelled in the steps the file system can observe: open(...,'w')        *)
(* truncates the file, the records are written, the file is closed.        *)
(***************************************************************************)
EXTENDS Integers, Sequences, FiniteSets, TLC

(***************************************************************************)
(* Bounds of the model.                                                    *)
(***************************************************************************)
\* add is only offered while the store holds fewer tasks than this
MaxTasks == 2

\* save_tasks fails at most this often between two saves that succeed
MaxSaveFailures == 1

\* Values of datetime.datetime.now().isoformat() (opaque strings): when a
\* task is added, and when a later session loads the file
AddTimes == {"t1"}
LoadTimes == {"t2"}

\* Python's None for due_date; it is falsy, as the empty tuple is empty
None == <<>>

\* A due date string "Y-M-D" is the triple <<Y, M, D>> of its numeric parts
\* (description, due_date, reminder_days) triples the dispatcher passes to add
AddArgs ==
    { [description |-> "buy milk", due_date |-> None,             reminder_days |-> 0],
      [description |-> "xmas",     due_date |-> <<2025, 12, 25>>, reminder_days |-> 1] }

\* The tasks of the stores the reminder scan is checked on: without a due
\* date, due with and without a reminder offset, with a due date that is no
\* calendar date, and with a reminder offset of more days than lie between
\* the due date and 0001-01-01
ScanArgs ==
    AddArgs \cup
    { [description |-> "nudge",    due_date |-> None,             reminder_days |-> 1],
      [description |-> "boxing",   due_date |-> <<2025, 12, 26>>, reminder_days |-> 0],
      [description |-> "feb",      due_date |-> <<2025, 2, 30>>,  reminder_days |-> 0],
      [description |-> "someday",  due_date |-> <<2025, 12, 25>>, reminder_days |-> 800000] }

\* The stores of the reminder scan hold at most this many tasks
MaxScan == 3

\* The date of the sessions of Spec
SessionNows == { <<2025, 12, 24>> }

\* Values of datetime.datetime.now().date() during a reminder scan
Nows == { <<2025, 12, 23>>, <<2025, 12, 24>>, <<2025, 12, 25>> }

\* Ids a complete/delete command may carry; MaxTasks + 1 is never present
TaskIds == 1..(MaxTasks + 1)

(***************************************************************************)
(* Task (lines 13-38)                                                      *)
(***************************************************************************)
\* Task.__init__ leaves id unset (None)
NoId == 0

\* uid is the identity of the Python object (not an attribute of Task)
\* __init__ without line 17: every task gets the default offset
TaskWithoutReminder(uid, description, due_date, reminder_days, now) ==
    [ uid           |-> uid,
      id            |-> NoId,
      description   |-> description,
      due_date      |-> due_date,
      reminder_days |-> 0,
      completed     |-> FALSE,
      created       |-> now ]

Task(uid, description, due_date, reminder_days, now) ==
    [ uid           |-> uid,
      id            |-> NoId,
      description   |-> description,
      due_date      |-> due_date,
      reminder_days |-> reminder_days,
      completed     |-> FALSE,
      created       |-> now ]

to_dict(t) ==
    [ id            |-> t.id,
      description   |-> t.description,
      due_date      |-> t.due_date,
      reminder_days |-> t.reminder_days,
      completed     |-> t.completed,
      created       |-> t.created ]

\* from_dict without line 36: the flag of the record is dropped
from_dict_drops_completed(data, uid, now) ==
    LET task == Task(uid, data.description, data.due_date, data.reminder_days, now)
    IN  [task EXCEPT !.id = data.id, !.created = data.created]

from_dict(data, uid, now) ==
    LET task == Task(uid, data.description, data.due_date, data.reminder_days, now)
    IN  [task EXCEPT !.id = data.id,
                     !.completed = data.completed,
                     !.created = data.created]

\* The keys from_dict subscripts; a missing one raises KeyError
RequiredKeys == {"description", "due_date", "reminder_days", "id", "completed", "created"}

\* The content of a task: every attribute, without the object identity
Content(ts) == [i \in 1..Len(ts) |-> to_dict(ts[i])]

(***************************************************************************)
(* The backing file.  kind says what the text of the file is:              *)
(*   absent       no file                                                  *)
(*   list         a JSON array of objects, recs                            *)
(*   partial      a file truncated by open(..., 'w') holding the text      *)
(*                written so far: the records recs, the array not closed   *)
(*   garbage      text that is not JSON                                    *)
(*   scalar       a JSON number, string, true, false or null               *)
(*   object       a JSON object with at least one key                      *)
(*   emptyobject  the JSON object {}                                       *)
(*   mixedlist    a JSON array: the objects recs, then a non-object        *)
(* saved and mem record the history of the file: saved holds when the      *)
(* text is a complete save of this program, mem is then the task list it   *)
(* was saved from.                                                         *)
(***************************************************************************)
File(kind, recs) == [kind |-> kind, recs |-> recs, saved |-> FALSE, mem |-> <<>>]

\* What the tasks of a process held, for a state that outlives the process:
\* every attribute, the objects themselves being gone
Values(ts) == [i \in 1..Len(ts) |-> [ts[i] EXCEPT !.uid = NoId]]

SavedFile(ts) == [kind |-> "list", recs |-> Content(ts), saved |-> TRUE, mem |-> Values(ts)]

\* Backing files a first session may find
InitFiles ==
    { File("absent", <<>>),
      File("garbage", <<>>),
      File("scalar", <<>>),
      File("object", <<>>),
      File("emptyobject", <<>>),
      File("mixedlist", <<>>),
      File("mixedlist", <<[id |-> 1]>>),
      File("list", <<[id |-> 1, description |-> "buy milk"]>>) }

VARIABLES
    pc,          \* where the process is: start, prompt, save, writing, exited, died, killed
    tasks,       \* TodoManager.tasks
    tasks_file,  \* the file TASKS_FILE
    cmd,         \* the command being executed, or the last one executed
    out,         \* what the last command (or the load) printed
    result,      \* the list the last list/remind command built
    mutated,     \* a mutating command has returned normally in this session
    failures     \* how often save_tasks has failed since it last succeeded

vars == <<pc, tasks, tasks_file, cmd, out, result, mutated, failures>>

Msg(m, id) == [msg |-> m, id |-> id]

\* name: the command; tid: its id argument; hit: the id was found;
\* n: len(tasks) before it; pn, pk: size and id of a delete of a present id
\* that was the command just before; before: the tasks before a mutating
\* command in progress; fsync: the file was a complete save of them;
\* today: the date of a reminder scan
Cmd(name, tid, hit, n, pn, pk, before, fsync) ==
    [name |-> name, tid |-> tid, hit |-> hit, n |-> n, pn |-> pn, pk |-> pk,
     before |-> before, fsync |-> fsync, today |-> None]

NoCmd == Cmd("none", 0, FALSE, 0, 0, 0, <<>>, FALSE)

Init ==
    /\ pc = "start"
    /\ tasks = <<>>
    /\ tasks_file \in InitFiles
    /\ cmd = NoCmd
    /\ out = <<>>
    /\ result = <<>>
    /\ mutated = FALSE
    /\ failures = 0


(***************************************************************************)
(* load_tasks (lines 41-56), run by TodoManager() at line 127, outside the *)
(* try of the command loop.                                                *)
(***************************************************************************)
\* The identity of the object built from record i of the file: the objects
\* of a new process are new ones
LoadUid(f, i) == i

HasKeys(data) == RequiredKeys \subseteq DOMAIN data

\* [Task.from_dict(t) for t in data] over the objects of an array
Decode(f, now) == [i \in 1..Len(f.recs) |-> from_dict(f.recs[i], LoadUid(f, i), now)]

Loaded(ts) == [tasks |-> ts, out |-> <<Msg("Loaded", Len(ts))>>, exc |-> "none"]

\* except (json.JSONDecodeError, KeyError): report, start fresh
Recovered(e) == [tasks |-> <<>>, out |-> <<Msg("Oops", 0)>>, exc |-> e]

\* Any other exception leaves load_tasks and TodoManager(), and ends main()
Uncaught(e) == [tasks |-> <<>>, out |-> <<Msg("Traceback", 0)>>, exc |-> e]

\* The first record of the array that lacks a key raises KeyError
AllHaveKeys(recs) == \A i \in 1..Len(recs) : HasKeys(recs[i])

LoadOutcome(f, now) ==
    CASE f.kind = "absent"      -> [tasks |-> <<>>, out |-> <<>>, exc |-> "none"]
      [] f.kind = "garbage"     -> Recovered("JSONDecodeError")
      [] f.kind = "partial"     -> Recovered("JSONDecodeError")
      [] f.kind = "scalar"      -> Uncaught("TypeError")
      [] f.kind = "object"      -> Uncaught("TypeError")
      [] f.kind = "emptyobject" -> Loaded(<<>>)
      [] f.kind = "list"        -> IF AllHaveKeys(f.recs)
                                   THEN Loaded(Decode(f, now))
                                   ELSE Recovered("KeyError")
      [] f.kind = "mixedlist"   -> IF AllHaveKeys(f.recs)
                                   THEN Uncaught("TypeError")
                                   ELSE Recovered("KeyError")

\* load_tasks with a save of the empty list in the except branch
load_tasks_resets_file ==
    /\ pc = "start"
    /\ \E now \in LoadTimes :
         LET r == LoadOutcome(tasks_file, now)
         IN  /\ tasks' = r.tasks
             /\ out' = r.out
             /\ pc' = IF r.out = <<Msg("Traceback", 0)>> THEN "died" ELSE "prompt"
             /\ tasks_file' = IF r.out = <<Msg("Oops", 0)>>
                              THEN SavedFile(<<>>)
                              ELSE tasks_file
    /\ cmd' = Cmd("load", 0, FALSE, 0, 0, 0, <<>>, FALSE)
    /\ UNCHANGED <<result, mutated, failures>>

load_tasks ==
    /\ pc = "start"
    /\ \E now \in LoadTimes :
         LET r == LoadOutcome(tasks_file, now)
         IN  /\ tasks' = r.tasks
             /\ out' = r.out
             /\ pc' = IF r.out = <<Msg("Traceback", 0)>> THEN "died" ELSE "prompt"
    /\ cmd' = Cmd("load", 0, FALSE, 0, 0, 0, <<>>, FALSE)
    /\ UNCHANGED <<tasks_file, result, mutated, failures>>

(***************************************************************************)
(* The mutating commands (lines 64-70, 89-104).  Each changes self.tasks   *)
(* and then calls save_tasks: the command is left in pc = "save".          *)
(***************************************************************************)
\* A free object identity: one no task in memory has
Uids(ts) == {ts[i].uid : i \in 1..Len(ts)}

FreshUid(ts) ==
    CHOOSE u \in 1..(Len(ts) + 1) :
        /\ u \notin Uids(ts)
        /\ \A v \in 1..(u - 1) : v \in Uids(ts)

\* The preceding command, when it was a delete of a present id
PrevN == IF cmd.name = "delete" /\ cmd.hit THEN cmd.n ELSE 0
PrevK == IF cmd.name = "delete" /\ cmd.hit THEN cmd.tid ELSE 0

InSync == tasks_file.kind = "list" /\ tasks_file.recs = Content(tasks)

\* task.id = len(self.tasks), the + 1 forgotten
NewIdNoIncrement(ts) == Len(ts)

\* line 67
NewId(ts) == Len(ts) + 1

add_task(a, now) ==
    /\ pc = "prompt"
    /\ Len(tasks) < MaxTasks
    /\ LET task == Task(FreshUid(tasks), a.description, a.due_date,
                        a.reminder_days, now)
       IN  tasks' = Append(tasks, [task EXCEPT !.id = NewId(tasks)])
    /\ cmd' = Cmd("add", 0, FALSE, Len(tasks), PrevN, PrevK, tasks, InSync)
    /\ pc' = "save"
    /\ out' = <<>>
    /\ result' = <<>>
    /\ UNCHANGED <<tasks_file, mutated, failures>>

\* Positions of the tasks whose id is task_id
Matches(ts, task_id) == {i \in 1..Len(ts) : ts[i].id = task_id}

First(S) == CHOOSE i \in S : \A j \in S : i <= j

\* line 92 as a toggle of the flag
MarkToggled(ts, i) == [ts EXCEPT ![i].completed = ~ts[i].completed]

\* line 92
MarkDone(ts, i) == [ts EXCEPT ![i].completed = TRUE]

\* complete_task with save_tasks and the report after the loop instead of
\* inside the if: a miss saves and reports as a hit does
complete_task_saves_on_miss(task_id) ==
    /\ pc = "prompt"
    /\ tasks' = IF Matches(tasks, task_id) # {}
                THEN MarkDone(tasks, First(Matches(tasks, task_id)))
                ELSE tasks
    /\ cmd' = Cmd("complete", task_id, Matches(tasks, task_id) # {}, Len(tasks), 0, 0,
                  tasks, InSync)
    /\ pc' = "save"
    /\ out' = <<>>
    /\ result' = <<>>
    /\ UNCHANGED <<tasks_file, mutated, failures>>

complete_task(task_id) ==
    /\ pc = "prompt"
    /\ IF Matches(tasks, task_id) # {}
       THEN /\ tasks' = MarkDone(tasks, First(Matches(tasks, task_id)))
            /\ cmd' = Cmd("complete", task_id, TRUE, Len(tasks), 0, 0, tasks, InSync)
            /\ pc' = "save"
            /\ out' = <<>>
            /\ result' = <<>>
       ELSE /\ cmd' = Cmd("complete", task_id, FALSE, Len(tasks), 0, 0, <<>>, FALSE)
            /\ out' = <<Msg("NotFound", task_id)>>
            /\ result' = <<>>
            /\ UNCHANGED <<tasks, pc>>
    /\ UNCHANGED <<tasks_file, mutated, failures>>

\* The positions of ts that hold, in order
RECURSIVE Filter(_, _)
Filter(ts, keep) ==
    IF ts = <<>> THEN <<>>
    ELSE IF 1 \in keep
         THEN <<Head(ts)>> \o Filter(Tail(ts), {i - 1 : i \in keep \ {1}})
         ELSE Filter(Tail(ts), {i - 1 : i \in keep \ {1}})

\* delete_task without the renumbering loop
KeepIds(ts) == ts

\* lines 101-102
\* enumerate(self.tasks) without the start value 1
RenumberFromZero(ts) == [i \in 1..Len(ts) |-> [ts[i] EXCEPT !.id = i - 1]]

Renumber(ts) == [i \in 1..Len(ts) |-> [ts[i] EXCEPT !.id = i]]

delete_task(task_id) ==
    /\ pc = "prompt"
    /\ tasks' = Renumber(Filter(tasks, {i \in 1..Len(tasks) : tasks[i].id # task_id}))
    /\ cmd' = Cmd("delete", task_id, Matches(tasks, task_id) # {}, Len(tasks), 0, 0,
                  tasks, InSync)
    /\ pc' = "save"
    /\ out' = <<>>
    /\ result' = <<>>
    /\ UNCHANGED <<tasks_file, mutated, failures>>


(***************************************************************************)
(* save_tasks (lines 58-61): data is built from self.tasks, open(..., 'w') *)
(* truncates the file, json.dump writes the records (a text cut anywhere   *)
(* is the same to json.load, so the writes are one step), leaving the with *)
(* block closes the file.  An OSError of open or of a write leaves         *)
(* save_tasks and the command, and is caught at line 211: the loop reports *)
(* it and goes on.                                                         *)
(***************************************************************************)
\* What the command prints after save_tasks returns (lines 70, 94, 104)
Report(c) ==
    CASE c.name = "add"      -> Msg("Added", c.n + 1)
      [] c.name = "complete" -> Msg("MarkedDone", c.tid)
      [] c.name = "delete"   -> Msg("Deleted", c.tid)

Returned(c) == [c EXCEPT !.before = <<>>, !.fsync = FALSE]

save_open ==
    /\ pc = "save"
    /\ tasks_file' = File("partial", <<>>)
    /\ pc' = "writing"
    /\ UNCHANGED <<tasks, cmd, out, result, mutated, failures>>

save_write ==
    /\ pc = "writing"
    /\ Len(tasks_file.recs) < Len(tasks)
    /\ tasks_file' = File("partial", Content(tasks))
    /\ UNCHANGED <<pc, tasks, cmd, out, result, mutated, failures>>

save_close ==
    /\ pc = "writing"
    /\ Len(tasks_file.recs) = Len(tasks)
    /\ tasks_file' = [kind |-> "list", recs |-> tasks_file.recs, saved |-> TRUE,
                      mem |-> Values(tasks)]
    /\ out' = <<Report(cmd)>>
    /\ cmd' = Returned(cmd)
    /\ pc' = "prompt"
    /\ mutated' = TRUE
    /\ failures' = 0
    /\ UNCHANGED <<tasks, result>>

\* lines 211-212: except Exception prints "Something went wrong ... Keep
\* going!" and the loop takes the next command
save_fails ==
    /\ pc \in {"save", "writing"}
    /\ failures < MaxSaveFailures
    /\ failures' = failures + 1
    /\ out' = <<Msg("SomethingWentWrong", 0)>>
    /\ cmd' = [Returned(cmd) EXCEPT !.name = "failed"]
    /\ pc' = "prompt"
    /\ UNCHANGED <<tasks, tasks_file, result, mutated>>

(***************************************************************************)
(* list_tasks (lines 72-87)                                                *)
(***************************************************************************)
\* the filter of line 77 with the flag the other way round
ActiveInverted(ts, show_completed) ==
    IF ~show_completed THEN ts
    ELSE Filter(ts, {i \in 1..Len(ts) : ~ts[i].completed})

Active(ts, show_completed) ==
    IF show_completed THEN ts
    ELSE Filter(ts, {i \in 1..Len(ts) : ~ts[i].completed})

list_tasks(show_completed) ==
    /\ pc = "prompt"
    /\ cmd' = Cmd("list", 0, FALSE, Len(tasks), 0, 0, <<>>, FALSE)
    /\ IF tasks = <<>>
       THEN out' = <<Msg("NoTasks", 0)>> /\ result' = <<>>
       ELSE IF Active(tasks, show_completed) = <<>>
            THEN out' = <<Msg("AllDone", 0)>> /\ result' = <<>>
            ELSE /\ out' = <<Msg("YourTasks", Len(Active(tasks, show_completed)))>>
                 /\ result' = Active(tasks, show_completed)
    /\ UNCHANGED <<pc, tasks, tasks_file, mutated, failures>>

(***************************************************************************)
(* check_reminders (lines 106-124) and the calendar of datetime            *)
(***************************************************************************)
IsLeap(y) == (y % 4 = 0) /\ ((y % 100 # 0) \/ (y % 400 = 0))

DaysInMonth(y, m) ==
    IF m = 2 THEN (IF IsLeap(y) THEN 29 ELSE 28)
    ELSE IF m \in {4, 6, 9, 11} THEN 30 ELSE 31

RECURSIVE DaysBeforeMonth(_, _)
DaysBeforeMonth(y, m) ==
    IF m = 1 THEN 0 ELSE DaysBeforeMonth(y, m - 1) + DaysInMonth(y, m - 1)

DaysBeforeYear(y) ==
    (y - 1) * 365 + ((y - 1) \div 4) - ((y - 1) \div 100) + ((y - 1) \div 400)

\* strptime(s, '%Y-%m-%d') raises ValueError unless s is a calendar date
ValidDate(d) ==
    /\ Len(d) = 3
    /\ d[1] \in 1..9999
    /\ d[2] \in 1..12
    /\ d[3] \in 1..DaysInMonth(d[1], d[2])

\* date.toordinal(): the day number, 0001-01-01 being day 1
ToOrdinal(d) == DaysBeforeYear(d[1]) + DaysBeforeMonth(d[1], d[2]) + d[3]

\* date.min.toordinal() and date.max.toordinal(): a date outside them is an
\* OverflowError; so is a timedelta of more than MaxDeltaDays days
MinOrdinal == 1
MaxOrdinal == 3652059
MaxDeltaDays == 999999999

\* due - timedelta(days=reminder_days) raises OverflowError
Overflows(t) ==
    \/ t.reminder_days > MaxDeltaDays
    \/ ToOrdinal(t.due_date) - t.reminder_days < MinOrdinal
    \/ ToOrdinal(t.due_date) - t.reminder_days > MaxOrdinal

\* line 114
IsDue(t, today) == ToOrdinal(today) >= ToOrdinal(t.due_date) - t.reminder_days

\* The loop of lines 109-117 from task i on: reminders so far, warnings so
\* far, and the exception that ended it
RECURSIVE Scan(_, _, _, _, _)
Scan(ts, i, today, reminders, warnings) ==
    IF i > Len(ts)
    THEN [reminders |-> reminders, warnings |-> warnings, exc |-> "none"]
    ELSE LET t == ts[i]
         IN  IF t.due_date # None /\ ~t.completed
             THEN IF ~ValidDate(t.due_date)
                  THEN Scan(ts, i + 1, today, reminders,
                            Append(warnings, Msg("BadDate", t.id)))
                  ELSE IF Overflows(t)
                       THEN [reminders |-> reminders, warnings |-> warnings,
                             exc |-> "OverflowError"]
                       ELSE IF IsDue(t, today)
                            THEN Scan(ts, i + 1, today, Append(reminders, t), warnings)
                            ELSE Scan(ts, i + 1, today, reminders, warnings)
             ELSE Scan(ts, i + 1, today, reminders, warnings)

\* check_reminders with the except branch removing the task it warns about
check_reminders_prunes(today) ==
    /\ pc = "prompt"
    /\ cmd' = [Cmd("remind", 0, FALSE, Len(tasks), 0, 0, <<>>, FALSE)
                   EXCEPT !.today = today]
    /\ LET s == Scan(tasks, 1, today, <<>>, <<>>)
       IN  /\ out' = s.warnings
           /\ result' = s.reminders
           /\ tasks' = Filter(tasks, {i \in 1..Len(tasks) :
                                       \A j \in 1..Len(s.warnings) :
                                          s.warnings[j] # Msg("BadDate", tasks[i].id)})
    /\ UNCHANGED <<pc, tasks_file, mutated, failures>>

check_reminders(today) ==
    /\ pc = "prompt"
    /\ cmd' = [Cmd("remind", 0, FALSE, Len(tasks), 0, 0, <<>>, FALSE)
                   EXCEPT !.today = today]
    /\ LET s == Scan(tasks, 1, today, <<>>, <<>>)
       IN  IF s.exc # "none"
           THEN /\ out' = Append(s.warnings, Msg("SomethingWentWrong", 0))
                /\ result' = <<>>
           ELSE /\ out' = Append(s.warnings,
                                 IF s.reminders # <<>>
                                 THEN Msg("Reminders", Len(s.reminders))
                                 ELSE Msg("NoReminders", 0))
                /\ result' = s.reminders
    /\ UNCHANGED <<pc, tasks, tasks_file, mutated, failures>>

(***************************************************************************)
(* Input the dispatcher turns down: a command it does not know (lines      *)
(* 205-206; a missing argument, lines 145-147, 172-174 and 182-184, is     *)
(* turned down the same way) and an id that is no number, whose ValueError *)
(* is caught at lines 178 and 188.  Each prints one line and the loop      *)
(* takes the next command.                                                 *)
(***************************************************************************)
InvalidInputs == {"Unknown", "IdNotNumber"}

Complaint(kind) == Msg(kind, 0)

\* int(parts[1]) outside a try: the ValueError of a non-numeric id would
\* reach line 211 all the same; here it is the loop that lacks the handler
invalid_input_dies(kind) ==
    /\ pc = "prompt"
    /\ cmd' = Cmd("invalid", 0, FALSE, Len(tasks), 0, 0, <<>>, FALSE)
    /\ out' = <<Msg("Traceback", 0)>>
    /\ result' = <<>>
    /\ pc' = "died"
    /\ UNCHANGED <<tasks, tasks_file, mutated, failures>>

invalid_input(kind) ==
    /\ pc = "prompt"
    /\ cmd' = Cmd("invalid", 0, FALSE, Len(tasks), 0, 0, <<>>, FALSE)
    /\ out' = <<Complaint(kind)>>
    /\ result' = <<>>
    /\ UNCHANGED <<pc, tasks, tasks_file, mutated, failures>>

(***************************************************************************)
(* The ends of a session (lines 140-142, 208-210), the death of the        *)
(* process by something outside it, and the start of the next session      *)
(***************************************************************************)
\* Nothing of the memory of a process is left when it has ended
Gone ==
    /\ tasks' = <<>>
    /\ result' = <<>>
    /\ mutated' = FALSE
    /\ failures' = 0

quit ==
    /\ pc = "prompt"
    /\ pc' = "exited"
    /\ cmd' = Cmd("quit", 0, FALSE, 0, 0, 0, <<>>, FALSE)
    /\ out' = <<Msg("Bye", 0)>>
    /\ Gone
    /\ UNCHANGED tasks_file

\* KeyboardInterrupt at input() or inside a command (line 208); a file being
\* written is closed as it is
interrupt ==
    /\ pc \in {"prompt", "save", "writing"}
    /\ pc' = "exited"
    /\ cmd' = Cmd("interrupt", 0, FALSE, 0, 0, 0, <<>>, FALSE)
    /\ out' = <<Msg("ExitingGracefully", 0)>>
    /\ Gone
    /\ UNCHANGED tasks_file

\* The process is killed or the machine stops, at the prompt or inside a
\* mutating command.  The state keeps what the command was doing: the tasks
\* before it (cmd.before) and after it (tasks).
kill ==
    /\ pc \in {"prompt", "save", "writing"}
    /\ pc' = "killed"
    /\ cmd' = Cmd(IF pc = "prompt" THEN "none" ELSE cmd.name, 0, FALSE, 0, 0, 0,
                  Values(IF pc = "prompt" THEN tasks ELSE cmd.before),
                  IF pc = "prompt" THEN InSync ELSE cmd.fsync)
    /\ tasks' = Values(tasks)
    /\ out' = <<>>
    /\ result' = <<>>
    /\ mutated' = FALSE
    /\ failures' = 0
    /\ UNCHANGED tasks_file

\* A new process
restart ==
    /\ pc \in {"exited", "died", "killed"}
    /\ pc' = "start"
    /\ cmd' = NoCmd
    /\ out' = <<>>
    /\ Gone
    /\ UNCHANGED tasks_file

Next ==
    \/ load_tasks
    \/ \E a \in AddArgs, now \in AddTimes : add_task(a, now)
    \/ \E task_id \in TaskIds : complete_task(task_id)
    \/ \E task_id \in TaskIds : delete_task(task_id)
    \/ \E show_completed \in BOOLEAN : list_tasks(show_completed)
    \/ \E today \in SessionNows : check_reminders(today)
    \/ \E kind \in InvalidInputs : invalid_input(kind)
    \/ save_open
    \/ save_write
    \/ save_close
    \/ save_fails
    \/ quit
    \/ interrupt
    \/ kill
    \/ restart

Spec == Init /\ [][Next]_vars

(***************************************************************************)
(* The reminder scan on its own: every store of at most MaxScan tasks that *)
(* adds and completes can build from ScanArgs, saved, at the prompt.       *)
(***************************************************************************)
ScanStores ==
    UNION { { [i \in 1..n |->
                 [Task(i, a[i].description, a[i].due_date, a[i].reminder_days, "t1")
                    EXCEPT !.id = i, !.completed = c[i]]] :
              a \in [1..n -> ScanArgs], c \in [1..n -> BOOLEAN] } :
            n \in 0..MaxScan }

InitScan ==
    /\ pc = "prompt"
    /\ tasks \in ScanStores
    /\ tasks_file = SavedFile(tasks)
    /\ cmd = NoCmd
    /\ out = <<>>
    /\ result = <<>>
    /\ mutated = FALSE
    /\ failures = 0

NextScan == \E today \in Nows : check_reminders(today)

SpecScan == InitScan /\ [][NextScan]_vars

(***************************************************************************)
(* The add branch of the dispatcher (lines 144-165).  A command line is    *)
(* the sequence of its tokens, parts = input().strip().lower().split(),    *)
(* and a description is the sequence of the tokens that ' '.join puts      *)
(* together, an empty token standing for the text str.replace removed      *)
(* between two spaces.                                                     *)
(***************************************************************************)
PlainWords == {"buy", "milk"}
DateWords == {"2025-12-25"}
NumberWords == {"1"}
Words == PlainWords \cup DateWords \cup NumberWords \cup {"due", "remind"}

MaxLine == 5

\* the argument tokens of an add command that passes len(parts) >= 2
AddLines == UNION { [1..k -> Words] : k \in 1..MaxLine }

\* str.isdigit, '-' in str, int(str), and the date a due string stands for
isdigit(w) == w \in NumberWords
HasDash(w) == w \in DateWords
int(w) == IF w = "1" THEN 1 ELSE 0
DateOf(w) == IF w = "2025-12-25" THEN <<2025, 12, 25>> ELSE None

\* full_desc.replace(f"due {due_date}", ""): every occurrence, left to right
RECURSIVE replace(_, _)
replace(ws, due) ==
    IF Len(ws) < 2 THEN ws
    ELSE IF ws[1] = "due" /\ ws[2] = due
         THEN <<"">> \o replace(SubSeq(ws, 3, Len(ws)), due)
         ELSE <<ws[1]>> \o replace(Tail(ws), due)

\* str.strip on the joined text
RECURSIVE strip(_)
strip(ws) ==
    IF ws = <<>> THEN ws
    ELSE IF ws[1] = "" THEN strip(Tail(ws))
    ELSE IF ws[Len(ws)] = "" THEN strip(SubSeq(ws, 1, Len(ws) - 1))
    ELSE ws

Parsed(description, due_date, reminder_days) ==
    [description |-> description, due_date |-> due_date, reminder_days |-> reminder_days]

\* lines 148-163; args is parts[1:], so parts[-1] is args[n] and
\* len(parts) is n + 1
ParseAdd(args) ==
    LET n == Len(args)
    IN  IF n >= 2
        THEN IF args[n - 1] = "due" /\ HasDash(args[n])
             THEN Parsed(strip(replace(args, args[n])), DateOf(args[n]), 0)
             ELSE IF isdigit(args[n])
                  THEN IF n >= 3 /\ args[n - 1] = "due" /\ HasDash(args[n - 2])
                       THEN Parsed(SubSeq(args, 1, n - 2), DateOf(args[n - 2]), int(args[n]))
                       ELSE Parsed(SubSeq(args, 1, n - 1), None, int(args[n]))
                  ELSE Parsed(args, None, 0)
        ELSE Parsed(args, None, 0)

\* lines 144-165: parse and call manager.add_task
main_add(args, now) == add_task(ParseAdd(args), now)

InitParse ==
    /\ pc = "prompt"
    /\ tasks = <<>>
    /\ tasks_file = File("absent", <<>>)
    /\ cmd = NoCmd
    /\ out = <<>>
    /\ result = <<>>
    /\ mutated = FALSE
    /\ failures = 0

NextParse == \E args \in AddLines, now \in AddTimes : main_add(args, now)

SpecParse == InitParse /\ [][NextParse]_vars

\* The two queries on the stores of InitScan
NextQuery ==
    \/ \E show_completed \in BOOLEAN : list_tasks(show_completed)
    \/ \E today \in Nows : check_reminders(today)

SpecQuery == InitScan /\ [][NextQuery]_vars

TypeOK ==
    /\ pc \in {"start", "prompt", "save", "writing", "exited", "died", "killed"}
    /\ Len(tasks) <= MaxTasks
    /\ mutated \in BOOLEAN


(***************************************************************************)
(* Properties                                                              *)
(***************************************************************************)
Mutating == {"add", "complete", "delete"}

\* The positions of the completed tasks of ts
Completed(ts) == {i \in 1..Len(ts) : ts[i].completed}

\* C1: the ids of the tasks in the store are exactly 1..N without
\* duplicates, N the number of tasks, and the task at position i has id i,
\* after every sequence of add, complete and delete (and in every session
\* that loads what an earlier one saved).
C1_IdDensity ==
    /\ \A i \in 1..Len(tasks) : tasks[i].id = i
    /\ {tasks[i].id : i \in 1..Len(tasks)} = 1..Len(tasks)

\* A delete of a present id that is not the last has returned and left tasks
C1_Witness ==
    /\ pc = "prompt"
    /\ cmd.name = "delete" /\ cmd.hit /\ cmd.tid < cmd.n
    /\ Len(tasks) >= 1

\* C2: a session that loads the file an earlier session saved holds the
\* tasks the store held immediately before that save: the same tasks in the
\* same order, each with the same id, description, due date, reminder
\* offset, completed flag and creation timestamp.
C2_RoundTrip ==
    (pc = "prompt" /\ cmd.name = "load" /\ tasks_file.saved)
        => Content(tasks) = Content(tasks_file.mem)

\* A session has loaded a saved store of two tasks, one of them completed
C2_Witness ==
    /\ pc = "prompt" /\ cmd.name = "load" /\ tasks_file.saved
    /\ Len(tasks) = 2
    /\ Completed(tasks) # {}
    /\ Completed(tasks) # {1, 2}

\* C3: between commands, once a mutating command has returned normally in
\* the session, the backing file is a serialization of exactly the tasks in
\* memory.
C3_DiskAgreesWithMemory ==
    (pc = "prompt" /\ mutated) => InSync

\* The part of C3 about the command that has just returned normally
C3_SavedOnReturn ==
    (pc = "prompt" /\ cmd.name \in Mutating /\ (cmd.name = "complete" => cmd.hit))
        => InSync

\* A backing file that exists and is not an array of records with every
\* required field
Malformed(f) ==
    /\ f.kind # "absent"
    /\ ~(f.kind = "list" /\ AllHaveKeys(f.recs))

\* C4: constructing the store from a malformed backing file ends with an
\* empty collection and exactly one warning, never with an uncaught failure
\* that ends the process.
C4_CorruptFileRecovery ==
    (cmd.name = "load" /\ Malformed(tasks_file))
        => /\ pc = "prompt"
           /\ tasks = <<>>
           /\ out = <<Msg("Oops", 0)>>

\* The part of C4 the code keeps: text that is not JSON, and records that
\* lack a field
C4_DecodeErrorsRecovered ==
    (cmd.name = "load" /\ (tasks_file.kind \in {"garbage", "partial"}
                           \/ ~AllHaveKeys(tasks_file.recs)))
        => /\ pc = "prompt"
           /\ tasks = <<>>
           /\ out = <<Msg("Oops", 0)>>

\* C5: when the process is killed during a mutating command whose file was
\* a complete save before it, the file afterwards is a complete snapshot of
\* the tasks before the command or of the tasks after it.
C5_CrashSafe ==
    (pc = "killed" /\ cmd.fsync)
        => /\ tasks_file.kind = "list"
           /\ tasks_file.recs \in {Content(cmd.before), Content(tasks)}

\* C6: a failure of save_tasks inside a command of the loop ends the
\* process; the loop does not go on to the next command.
C6_SaveFailureFatal ==
    cmd.name = "failed" => pc = "died"

\* The tasks of ts a reminder is due for on the day today: not completed,
\* with a due date that is a calendar date, today on or after the due date
\* less the reminder offset (in days, over the integers)
Eligible(ts, today) ==
    Filter(ts, {i \in 1..Len(ts) :
                  /\ ~ts[i].completed
                  /\ ts[i].due_date # None
                  /\ ValidDate(ts[i].due_date)
                  /\ ToOrdinal(today) >= ToOrdinal(ts[i].due_date) - ts[i].reminder_days})

\* C7: the reminder scan yields, in store order, exactly the tasks that are
\* incomplete, have a valid due date and satisfy now >= due_date -
\* reminder_days, for every store and every date.
C7_ReminderEligibility ==
    (pc = "prompt" /\ cmd.name = "remind") => result = Eligible(tasks, cmd.today)

\* The part of C7 the code keeps: stores in which no incomplete task has a
\* reminder offset reaching before 0001-01-01
C7_EligibilityWithoutOverflow ==
    (pc = "prompt" /\ cmd.name = "remind"
     /\ \A i \in 1..Len(tasks) :
            (~tasks[i].completed /\ ValidDate(tasks[i].due_date)) => ~Overflows(tasks[i]))
        => result = Eligible(tasks, cmd.today)

\* The task an add command in progress has appended: the one object that
\* was not in the store before
NewTasks == {i \in 1..Len(tasks) : tasks[i].uid \notin Uids(cmd.before)}

\* An add has changed the store, right after a delete of the present id
\* cmd.pk from a store of cmd.pn tasks
ReaddCase == pc = "save" /\ cmd.name = "add" /\ cmd.pn >= 1 /\ cmd.pk \in 1..cmd.pn

\* C8 as stated: the new task has id N, which is neither k nor N+1, and is
\* the last of the store.
C8_ReaddGetsN_NotK ==
    ReaddCase
        => /\ NewTasks = {Len(tasks)}
           /\ tasks[Len(tasks)].id = cmd.pn
           /\ tasks[Len(tasks)].id # cmd.pk
           /\ tasks[Len(tasks)].id # cmd.pn + 1

\* C8 amended: the new task has id N, never N+1, is not k unless k = N (the
\* deleted task was the last), and is the last of the store.
C8_ReaddGetsN ==
    ReaddCase
        => /\ NewTasks = {Len(tasks)}
           /\ tasks[Len(tasks)].id = cmd.pn
           /\ (cmd.pk < cmd.pn => tasks[Len(tasks)].id # cmd.pk)
           /\ tasks[Len(tasks)].id # cmd.pn + 1

\* Task 1 of 2 was deleted and a task added: the new one is task 2
C8_Witness ==
    ReaddCase /\ cmd.pn = 2 /\ cmd.pk = 1

\* One step keeps every completed task completed: in memory, a task (an
\* object) that is completed is completed afterwards or no longer in the
\* store; a save that completes writes each completed task as a completed
\* record; a load of a saved file builds a completed task from each
\* completed record.
CompletionKept ==
    /\ \A i \in 1..Len(tasks) : \A j \in 1..Len(tasks') :
          (tasks[i].completed /\ tasks'[j].uid = tasks[i].uid) => tasks'[j].completed
    /\ (pc = "writing" /\ pc' = "prompt" /\ tasks_file'.saved)
          => \A i \in 1..Len(tasks) :
                tasks[i].completed => tasks_file'.recs[i].completed
    /\ (pc = "start" /\ pc' = "prompt" /\ tasks_file.saved)
          => \A i \in 1..Len(tasks_file.recs) :
                tasks_file.recs[i].completed
                    => (i \in 1..Len(tasks') /\ tasks'[i].completed)

\* C9: once a task is completed, it stays completed or is deleted, whatever
\* add, list, complete, delete, remind, and save followed by a load in a new
\* session do.
C9_CompletionIrreversible == [][CompletionKept]_vars

\* A completed task has survived a delete that renumbered it
C9_Witness ==
    /\ pc = "prompt" /\ cmd.name = "delete" /\ cmd.hit
    /\ \E i \in 1..Len(tasks) : tasks[i].completed /\ tasks[i].uid # i

\* A completed task is being completed again
C9_WitnessRepeat ==
    /\ pc = "save" /\ cmd.name = "complete" /\ cmd.hit
    /\ \E i \in Completed(cmd.before) : cmd.before[i].id = cmd.tid

\* C10: delete with an id no task has leaves the tasks in memory as they
\* are and signals "not found", as complete does.
C10_DeleteMissNotFound ==
    /\ (pc = "save" /\ cmd.name = "delete" /\ ~cmd.hit) => tasks = cmd.before
    /\ (pc = "prompt" /\ cmd.name = "delete" /\ ~cmd.hit)
          => out = <<Msg("NotFound", cmd.tid)>>

\* The part of C10 the code keeps: the tasks in memory are unchanged
C10_DeleteMissKeepsTasks ==
    (pc = "save" /\ cmd.name = "delete" /\ ~cmd.hit) => tasks = cmd.before


\* A step of complete_task with an id no task has
CompleteMiss == pc = "prompt" /\ cmd'.name = "complete" /\ ~cmd'.hit

\* C11: complete with an id no task has leaves the tasks in memory and the
\* backing file as they are (no save is started), raises nothing and reports
\* "not found".
C11_CompleteMiss ==
    [][CompleteMiss
          => /\ tasks' = tasks
             /\ tasks_file' = tasks_file
             /\ pc' = "prompt"
             /\ out' = <<Msg("NotFound", cmd'.tid)>>]_vars

\* complete with an absent id has returned to the prompt of a store that
\* holds tasks
C11_Witness ==
    /\ pc = "prompt" /\ cmd.name = "complete" /\ ~cmd.hit
    /\ out = <<Msg("NotFound", cmd.tid)>>
    /\ Len(tasks) >= 1

\* The command in progress is a complete of a task that was completed before
Recompletion(c) ==
    /\ c.name = "complete" /\ c.hit
    /\ c.before[First(Matches(c.before, c.tid))].completed

\* C12: when complete of an already completed task returns, the tasks in
\* memory are what they were before the call, and the backing file holds
\* the collection it held before the call (c.fsync: before the call it held
\* the tasks of that time).
C12_IdempotentCompletion ==
    [][(pc = "writing" /\ pc' = "prompt" /\ Recompletion(cmd) /\ cmd'.name = "complete")
          => /\ tasks' = cmd.before
             /\ tasks_file'.recs = Content(cmd.before)
             /\ cmd.fsync]_vars

\* The part of C12 the code keeps: memory is unchanged, and so is the file
\* when it was a save of the tasks before the call
C12_IdempotentWhenInSync ==
    [][(pc = "writing" /\ pc' = "prompt" /\ Recompletion(cmd) /\ cmd'.name = "complete")
          => /\ tasks' = cmd.before
             /\ (cmd.fsync => tasks_file'.recs = Content(cmd.before))]_vars

\* A step inside a session
InSession == pc \in {"prompt", "save", "writing"}

\* C14: the loop reports input it turns down and goes on with the store as
\* it was; the process ends of itself only by quit or an interrupt (never
\* by an uncaught exception of a command), and by these it does end.
C14_LoopSurvives ==
    [][/\ (pc = "prompt" /\ cmd'.name = "invalid")
            => /\ pc' = "prompt"
               /\ tasks' = tasks
               /\ tasks_file' = tasks_file
               /\ Len(out') = 1
       /\ (InSession /\ pc' \in {"exited", "died"})
            => (pc' = "exited" /\ cmd'.name \in {"quit", "interrupt"})
       /\ (InSession /\ cmd'.name \in {"quit", "interrupt"}) => pc' = "exited"]_vars

\* The loop has turned input down at a store that holds tasks, after a save
\* that failed
C14_Witness ==
    /\ pc = "prompt" /\ cmd.name = "invalid"
    /\ Len(tasks) >= 1
    /\ failures >= 1


\* Free text without keywords, dates or numbers
Texts == UNION { [1..k -> PlainWords] : k \in 1..2 }

\* The add lines of the forms the specification names, with what each is to
\* give: text, text due <date>, text <n>, text due <date> <n>
Intended ==
    { [args |-> t, give |-> Parsed(t, None, 0)] : t \in Texts }
    \cup { [args |-> t \o <<"due", d>>, give |-> Parsed(t, DateOf(d), 0)] :
             t \in Texts, d \in DateWords }
    \cup { [args |-> t \o <<n>>, give |-> Parsed(t, None, int(n))] :
             t \in Texts, n \in NumberWords }
    \cup { [args |-> t \o <<"due", d, n>>, give |-> Parsed(t, DateOf(d), int(n))] :
             t \in Texts, d \in DateWords, n \in NumberWords }

\* The form of the help text: text due <date> remind <n>
HelpForm ==
    { [args |-> t \o <<"due", d, "remind", n>>, give |-> Parsed(t, DateOf(d), int(n))] :
        t \in Texts, d \in DateWords, n \in NumberWords }

\* The task an add has just appended
Added(ts) == ts[Len(ts)]

Gives(t, g) ==
    /\ t.description = g.description
    /\ t.due_date = g.due_date
    /\ t.reminder_days = g.reminder_days

\* C13: an add line whose text ends with `due <date>` and/or an integer
\* creates a task with the text before them as description, the date as due
\* date and the integer as reminder offset; the line of the help text,
\* text due <date> remind <n>, creates a task with that due date and that
\* reminder offset.
C13_AddDispatch ==
    [][\A now \in AddTimes :
         /\ \A l \in Intended :
              main_add(l.args, now) => Gives(Added(tasks'), l.give)
         /\ \A l \in HelpForm :
              main_add(l.args, now) => /\ Added(tasks').due_date = l.give.due_date
                                       /\ Added(tasks').reminder_days = l.give.reminder_days]_vars

\* The part of C13 the code keeps: text alone, text due <date>, and text <n>
C13_DueOrReminderAlone ==
    [][\A now \in AddTimes :
         \A l \in Intended :
            (main_add(l.args, now) /\ (l.give.due_date = None \/ l.give.reminder_days = 0))
               => Gives(Added(tasks'), l.give)]_vars

\* The one order that sets both: text <date> due <n>, the date staying in
\* the description
C13_DateBeforeDue ==
    [][\A now \in AddTimes : \A t \in Texts, d \in DateWords, n \in NumberWords :
         main_add(t \o <<d, "due", n>>, now)
            => Gives(Added(tasks'), Parsed(t \o <<d>>, DateOf(d), int(n)))]_vars


\* A delete of an existing id has changed the memory and is about to save
DeleteHit == pc = "save" /\ cmd.name = "delete" /\ cmd.hit

C16_AddAppendsOne ==
    [][\A a \in AddArgs, now \in AddTimes :
         add_task(a, now)
            => /\ Len(tasks') = Len(tasks) + 1
               /\ SubSeq(tasks', 1, Len(tasks)) = tasks
               /\ Added(tasks').id = Len(tasks) + 1
               /\ Gives(Added(tasks'), a)
               /\ ~Added(tasks').completed]_vars

\* A task with a due date and a reminder offset has been added after a
\* completed one
C16_Witness ==
    /\ pc = "save" /\ cmd.name = "add"
    /\ Len(cmd.before) >= 1
    /\ cmd.before[1].completed
    /\ Added(tasks).reminder_days > 0
    /\ Added(tasks).due_date # None

\* C17: list shows the tasks in store order, all of them with the flag set
\* and those not completed without it, and nothing (raising nothing) when
\* no task matches, as in a fresh store.  result is what list displays.
C17_ListInStoreOrder ==
    [][\A show_completed \in BOOLEAN :
         list_tasks(show_completed)
            => /\ result' = SelectSeq(tasks, LAMBDA t : show_completed \/ ~t.completed)
               /\ pc' = "prompt"]_vars

\* list without the flag has shown some tasks and left a completed one out
C17_Witness ==
    /\ pc = "prompt" /\ cmd.name = "list"
    /\ result # <<>>
    /\ Len(result) < Len(tasks)

\* list of a fresh store with no backing file has shown nothing
C17_WitnessFresh ==
    /\ pc = "prompt" /\ cmd.name = "list"
    /\ tasks_file.kind = "absent"
    /\ result = <<>>


\* An incomplete task whose due date is no date of the calendar
BadDate(t) == ~t.completed /\ t.due_date # None /\ ~ValidDate(t.due_date)

\* The warnings of a scan that name the task
WarningsFor(t) == {j \in 1..Len(out) : out[j] = Msg("BadDate", t.id)}

\* C18: a scan of a store with a bad due date warns once about each such
\* task, leaves it out, and yields every eligible task of the store, those
\* after the bad one as well as those before it.
C18_BadDateSkipped ==
    (pc = "prompt" /\ cmd.name = "remind" /\ \E i \in 1..Len(tasks) : BadDate(tasks[i]))
        => /\ \A i \in 1..Len(tasks) :
                 BadDate(tasks[i]) => Cardinality(WarningsFor(tasks[i])) = 1
           /\ result = Eligible(tasks, cmd.today)

\* The part of C18 the code keeps: stores in which no incomplete task has a
\* reminder offset reaching before 0001-01-01
C18_BadDateSkippedWithoutOverflow ==
    (pc = "prompt" /\ cmd.name = "remind"
     /\ (\E i \in 1..Len(tasks) : BadDate(tasks[i]))
     /\ \A i \in 1..Len(tasks) :
            (~tasks[i].completed /\ ValidDate(tasks[i].due_date)) => ~Overflows(tasks[i]))
        => /\ \A i \in 1..Len(tasks) :
                 BadDate(tasks[i]) => Cardinality(WarningsFor(tasks[i])) = 1
           /\ result = Eligible(tasks, cmd.today)

\* A scan has warned about a bad date between two tasks it reports
C18_SkippedBetweenEligible ==
    /\ pc = "prompt" /\ cmd.name = "remind"
    /\ Len(tasks) = 3 /\ BadDate(tasks[2])
    /\ result = <<tasks[1], tasks[3]>>

\* C19: load writes nothing, and neither do list, the reminder scan and a
\* complete that finds no task: a malformed file stays as load found it
\* through any number of them.  The file changes only in the save of an
\* add, complete or delete.
C19_LoadNeverWrites ==
    [][/\ (pc = "start" \/ CompleteMiss \/ (pc = "prompt" /\ cmd'.name \in {"list", "remind"}))
            => tasks_file' = tasks_file
       /\ tasks_file' # tasks_file
            => (pc \in {"save", "writing"} /\ cmd.name \in Mutating)]_vars

\* After the fallback of load the session has looked for a task, and the
\* malformed file is still there
C19_Witness ==
    /\ pc = "prompt" /\ cmd.name = "complete" /\ ~cmd.hit
    /\ tasks = <<>>
    /\ Malformed(tasks_file)
    /\ ~mutated

\* C20: list, with or without the flag, and the reminder scan, on any date
\* and with bad due dates in the store, leave the tasks in memory and the
\* backing file as they are.
C20_QueriesReadOnly ==
    [][(pc = "prompt" /\ cmd'.name \in {"list", "remind"})
          => (tasks' = tasks /\ tasks_file' = tasks_file)]_vars

\* A scan has warned about a bad date and the task is still in the store
C20_Witness ==
    /\ pc = "prompt" /\ cmd.name = "remind"
    /\ \E i \in 1..Len(tasks) : BadDate(tasks[i]) /\ WarningsFor(tasks[i]) # {}
    /\ tasks_file = SavedFile(tasks)

====
